---- MODULE Spec2Model ----
(***************************************************************************)
(* Model of app.py, a Streamlit task manager.  Every user interaction      *)
(* re-executes the whole script (a "run") in the user's session.  A run    *)
(* makes at most three database calls (init_db, then view_tasks or         *)
(* add_task, then delete_task); each database call is one transaction and  *)
(* is one atomic step of the model, so calls of different sessions         *)
(* interleave.                                                             *)
(***************************************************************************)
EXTENDS Integers, Sequences, FiniteSets

\* ---------------------------------------------------------------- bounds
NumUsers == 2          \* sessions of the main specification
MaxId == 3             \* inserts over a behaviour (ids handed out by SERIAL)
MaxTime == 2           \* last clock tick of the database server
TicksPerSec == 2       \* clock ticks in one second of TO_CHAR's format

\* ------------------------------------------------- constants of the code
pool_size == 5
max_overflow == 2
PoolLimit == pool_size + max_overflow
NumPoolUsers == PoolLimit + 1

\* --------------------------------------------------------- environment
Absent == "<absent>"
EnvNames == {"INSTANCE_CONNECTION_NAME", "DB_USER", "DB_PASS", "DB_NAME",
             "DB_HOST", "DB_PORT", "PRIVATE_IP", "DB_IAM_AUTH"}
FlagNames == {"PRIVATE_IP", "DB_IAM_AUTH"}
\* os.environ: every variable is absent, empty or set; a flag that is set
\* is the literal "true" or another text.
EnvValues(k) == IF k \in FlagNames THEN {Absent, "", "true", "yes"}
                ELSE {Absent, "", "v"}
AllEnvs == {e \in [EnvNames -> {Absent, "", "v", "true", "yes"}] :
              \A k \in EnvNames : e[k] \in EnvValues(k)}

\* k in os.environ
InEnviron(e, k) == e[k] # Absent
\* os.environ.get(k): None or "" is falsy
Truthy(e, k) == e[k] # Absent /\ e[k] # ""

EnvOf(set) == [k \in EnvNames |-> IF k \in set THEN "v" ELSE Absent]
EnvConnector == EnvOf({"INSTANCE_CONNECTION_NAME", "DB_USER", "DB_PASS", "DB_NAME"})
EnvNoPass == [EnvOf({"INSTANCE_CONNECTION_NAME", "DB_USER", "DB_NAME"})
                EXCEPT !["DB_IAM_AUTH"] = "true"]
EnvDirect == EnvOf({"DB_HOST", "DB_USER", "DB_PASS", "DB_NAME"})
EnvUnconfigured == EnvOf({})
EnvSamples == {EnvConnector, EnvNoPass, EnvDirect, EnvUnconfigured}

VARIABLES
  users,        \* the sessions of the process
  env,          \* os.environ
  now,          \* clock of the database server, in ticks
  tableExists,  \* the tasks table exists
  tasks,        \* rows of the tasks table
  nextId,       \* next value of the SERIAL sequence
  connector,    \* connector[u]: "connector" in st.session_state of u
  pc,           \* position of u's run: "idle", "section", "deleting"
  engine,       \* the module global engine of u's run
  choice,       \* the menu selectbox of u
  input,        \* the widget event that triggered u's run
  all_tasks,    \* list fetched by view_tasks in u's run
  out,          \* messages u's run has displayed
  dbcalls,      \* database calls u's run has attempted
  pooled,       \* connections held open by the pool of u's engine
  fault,        \* the last database call of u's run raised an exception
  prevFailed    \* u's previous run reported a failed add_task or delete_task

vars == <<users, env, now, tableExists, tasks, nextId, connector, pc, engine,
          choice, input, all_tasks, out, dbcalls, pooled, fault, prevFailed>>

\* a message the run displays (st.success, st.error, st.warning, st.info)
Msg(level, text, cause) == <<level, text, cause>>

\* ------------------------------------------------------------ get_engine
Strategy1(e) == \A k \in {"INSTANCE_CONNECTION_NAME", "DB_USER", "DB_NAME"} :
                  InEnviron(e, k)
Strategy2(e) == /\ Truthy(e, "DB_HOST")
                /\ \A k \in {"DB_USER", "DB_PASS", "DB_NAME"} : InEnviron(e, k)

\* get_engine: the engine it returns and the messages it displays.  exc is
\* an exception raised while the engine is constructed.
get_engine(e, exc) ==
  IF Strategy1(e) THEN
    IF exc THEN [engine |-> "None",
                 msgs |-> <<Msg("error", "creating engine", "Exception")>>]
    ELSE [engine |-> "connector", msgs |-> <<>>]
  ELSE IF Strategy2(e) THEN
    IF exc THEN [engine |-> "None",
                 msgs |-> <<Msg("warning", "fallback", ""),
                            Msg("error", "creating engine", "Exception")>>]
    ELSE [engine |-> "direct", msgs |-> <<Msg("warning", "fallback", "")>>]
  ELSE [engine |-> "None", msgs |-> <<Msg("error", "not configured", "")>>]

\* connect_with_connector: os.environ[k] raises KeyError for an absent k
connect_with_connector(e) ==
  IF \E k \in {"INSTANCE_CONNECTION_NAME", "DB_USER", "DB_PASS", "DB_NAME"} :
       ~InEnviron(e, k)
  THEN [error |-> "KeyError"]
  ELSE [error |-> "none",
        ip_type |-> IF e["PRIVATE_IP"] = "true" THEN "PRIVATE" ELSE "PUBLIC",
        enable_iam_auth |-> (e["DB_IAM_AUTH"] = "true")]

\* ------------------------------------------------------- database calls
Fails == {"none", "connect", "execute", "commit"}

\* The exception, if any, a database call of engine eng raises: the creator
\* of the connector engine fails first, then the injected failure, then a
\* statement on a missing table.
Raised(eng, e, fail, needsTable, exists) ==
  IF eng = "connector" /\ connect_with_connector(e).error # "none"
    THEN "KeyError"
  ELSE IF fail # "none" THEN "DBAPIError"
  ELSE IF needsTable /\ ~exists THEN "DBAPIError"
  ELSE "none"

\* engine.connect() obtained a connection, which the pool then keeps open
Connected(eng, e, fail) ==
  /\ ~(eng = "connector" /\ connect_with_connector(e).error # "none")
  /\ fail # "connect"

\* created_at as view_tasks selects it: TO_CHAR(created_at, 'YYYY-MM-DD
\* HH24:MI:SS') keeps the second and drops the fraction.
TO_CHAR(t) == t \div TicksPerSec

\* row._asdict() of one selected row
AsDict(row) == [id |-> row.id, title |-> row.title,
                description |-> row.description,
                created_at |-> TO_CHAR(row.created_at)]

Ids(list) == {list[i].id : i \in 1..Len(list)}

\* the order of a query that sorts the other way
OrderByCreatedAtAsc(list) ==
  \A i, j \in 1..Len(list) : i < j => list[i].created_at <= list[j].created_at

\* ORDER BY created_at DESC: created_at names the output column (the
\* TO_CHAR text), so rows of one second come in an order the store picks.
OrderByCreatedAtDesc(list) ==
  \A i, j \in 1..Len(list) : i < j => list[i].created_at >= list[j].created_at

\* Every list the SELECT may produce for the table tbl.
SelectTasks(tbl) ==
  LET n == Cardinality(tbl)
      rows == {AsDict(r) : r \in tbl}
  IN {list \in [1..n -> rows] :
        /\ \A i, j \in 1..n : i # j => list[i] # list[j]
        /\ OrderByCreatedAtDesc(list)}

\* What a function of the script hands back to the action that calls it:
\* called, the database was called; raised, the call raised an exception
\* (which the function caught); escapes, the exception leaves the function.

\* an init_db whose except clause lets the exception go on
init_dbReraise(eng, e, exists, fail) ==
  IF eng = "None"
    THEN [exists |-> exists, msgs |-> <<>>, called |-> FALSE, raised |-> FALSE,
          escapes |-> FALSE]
  ELSE LET r == Raised(eng, e, fail, FALSE, exists)
       IN IF r = "none"
            THEN [exists |-> TRUE, msgs |-> <<Msg("success", "init_db", "")>>,
                  called |-> TRUE, raised |-> FALSE, escapes |-> FALSE]
            ELSE [exists |-> exists, msgs |-> <<Msg("error", "init_db", r)>>,
                  called |-> TRUE, raised |-> TRUE, escapes |-> TRUE]

\* init_db(): whether the table exists afterwards and the messages displayed
init_db(eng, e, exists, fail) ==
  IF eng = "None"
    THEN [exists |-> exists, msgs |-> <<>>, called |-> FALSE, raised |-> FALSE,
          escapes |-> FALSE]
  ELSE LET r == Raised(eng, e, fail, FALSE, exists)
       IN IF r = "none"
            THEN [exists |-> TRUE, msgs |-> <<Msg("success", "init_db", "")>>,
                  called |-> TRUE, raised |-> FALSE, escapes |-> FALSE]
            ELSE [exists |-> exists, msgs |-> <<Msg("error", "init_db", r)>>,
                  called |-> TRUE, raised |-> TRUE, escapes |-> FALSE]

\* an add_task without the transaction: a failed commit leaves the row
add_taskNoRollback(eng, e, exists, tbl, nid, t, title, description, fail) ==
  IF eng = "None"
    THEN [tasks |-> tbl, nextId |-> nid, msgs |-> <<>>, called |-> FALSE,
          raised |-> FALSE]
  ELSE LET r == Raised(eng, e, fail, TRUE, exists)
           row == [id |-> nid, title |-> title, description |-> description,
                   created_at |-> t]
       IN IF r = "none"
            THEN [tasks |-> tbl \cup {row}, nextId |-> nid + 1,
                  msgs |-> <<Msg("success", "add_task", "")>>,
                  called |-> TRUE, raised |-> FALSE]
            ELSE [tasks |-> IF fail = "commit" /\ exists THEN tbl \cup {row} ELSE tbl,
                  nextId |-> IF fail = "commit" /\ exists THEN nid + 1 ELSE nid,
                  msgs |-> <<Msg("error", "add_task", r)>>, called |-> TRUE,
                  raised |-> TRUE]

\* add_task(title, description): the table, the sequence and the messages
\* after the call, and whether the database was called.
add_task(eng, e, exists, tbl, nid, t, title, description, fail) ==
  IF eng = "None"
    THEN [tasks |-> tbl, nextId |-> nid, msgs |-> <<>>, called |-> FALSE,
          raised |-> FALSE]
  ELSE LET r == Raised(eng, e, fail, TRUE, exists)
       IN IF r = "none"
            THEN [tasks |-> tbl \cup {[id |-> nid, title |-> title,
                                       description |-> description,
                                       created_at |-> t]},
                  nextId |-> nid + 1,
                  msgs |-> <<Msg("success", "add_task", "")>>,
                  called |-> TRUE, raised |-> FALSE]
            ELSE [tasks |-> tbl, nextId |-> nid,
                  msgs |-> <<Msg("error", "add_task", r)>>, called |-> TRUE,
                  raised |-> TRUE]

Prefixes(l) == {SubSeq(l, 1, n) : n \in 0..Len(l)}

\* a view_tasks that returns the rows fetched before the failure
view_tasksPartial(eng, e, exists, tbl, fail) ==
  IF eng = "None"
    THEN {[list |-> <<>>, msgs |-> <<>>, called |-> FALSE, raised |-> FALSE]}
  ELSE LET r == Raised(eng, e, fail, TRUE, exists)
       IN IF r = "none"
            THEN {[list |-> l, msgs |-> <<>>, called |-> TRUE, raised |-> FALSE] :
                    l \in SelectTasks(tbl)}
            ELSE {[list |-> l, msgs |-> <<Msg("error", "view_tasks", r)>>,
                   called |-> TRUE, raised |-> TRUE] :
                    l \in UNION {Prefixes(f) : f \in SelectTasks(tbl)}}

\* view_tasks(): the lists it may return, with the messages it displays
view_tasks(eng, e, exists, tbl, fail) ==
  IF eng = "None"
    THEN {[list |-> <<>>, msgs |-> <<>>, called |-> FALSE, raised |-> FALSE]}
  ELSE LET r == Raised(eng, e, fail, TRUE, exists)
       IN IF r = "none"
            THEN {[list |-> l, msgs |-> <<>>, called |-> TRUE, raised |-> FALSE] :
                    l \in SelectTasks(tbl)}
            ELSE {[list |-> <<>>, msgs |-> <<Msg("error", "view_tasks", r)>>,
                   called |-> TRUE, raised |-> TRUE]}

\* a delete_task that reports an id matching no row as an error
delete_taskStrict(eng, e, exists, tbl, task_id, fail) ==
  IF eng = "None"
    THEN [tasks |-> tbl, msgs |-> <<>>, called |-> FALSE, raised |-> FALSE]
  ELSE LET r == Raised(eng, e, fail, TRUE, exists)
       IN IF r = "none" /\ \E row \in tbl : row.id = task_id
            THEN [tasks |-> {row \in tbl : row.id # task_id},
                  msgs |-> <<Msg("success", "delete_task", "")>>,
                  called |-> TRUE, raised |-> FALSE]
            ELSE [tasks |-> tbl,
                  msgs |-> <<Msg("error", "delete_task",
                                 IF r = "none" THEN "not found" ELSE r)>>,
                  called |-> TRUE, raised |-> r # "none"]

\* delete_task(task_id)
delete_task(eng, e, exists, tbl, task_id, fail) ==
  IF eng = "None"
    THEN [tasks |-> tbl, msgs |-> <<>>, called |-> FALSE, raised |-> FALSE]
  ELSE LET r == Raised(eng, e, fail, TRUE, exists)
       IN IF r = "none"
            THEN [tasks |-> {row \in tbl : row.id # task_id},
                  msgs |-> <<Msg("success", "delete_task", "")>>,
                  called |-> TRUE, raised |-> FALSE]
            ELSE [tasks |-> tbl, msgs |-> <<Msg("error", "delete_task", r)>>,
                  called |-> TRUE, raised |-> TRUE]

\* ------------------------------------------------------------ the script
Menu == {"View Tasks", "Add Task", "Delete Task"}
Titles == {"", "A"}
Descriptions == {""}

NoInput == [kind |-> "none", title |-> "", description |-> "", id |-> 0]
Submit(t, d) == [kind |-> "submit", title |-> t, description |-> d, id |-> 0]
Click(k, i) == [kind |-> k, title |-> "", description |-> "", id |-> i]

\* u's last run got past the startup guard and rendered its page
Rendered(u) == \E i \in 1..Len(out[u]) : out[u][i][2] = "init_db"

\* The widget events u can fire on the page its last run rendered, with the
\* menu choice of the run they trigger.
Events(u) ==
  {<<choice[u], NoInput>>}
  \cup (IF Rendered(u) THEN {<<ch, NoInput>> : ch \in Menu} ELSE {})
  \cup (IF Rendered(u) /\ choice[u] = "Add Task"
          THEN {<<"Add Task", Submit(t, d)>> : t \in Titles, d \in Descriptions}
          ELSE {})
  \cup (IF Rendered(u) /\ choice[u] = "View Tasks"
          THEN {<<"View Tasks", Click("del", i)>> : i \in Ids(all_tasks[u])}
          ELSE {})
  \cup (IF Rendered(u) /\ choice[u] = "Delete Task"
          THEN {<<"Delete Task", Click("delsel", i)>> : i \in Ids(all_tasks[u])}
          ELSE {})

\* the events that can start u's next run: st.rerun() repeats the page
RunEvents(u) == IF pc[u] = "rerun" THEN {<<choice[u], NoInput>>} ELSE Events(u)

ReportedFailure(msgs) ==
  \E i \in 1..Len(msgs) :
    msgs[i][1] = "error" /\ msgs[i][2] \in {"add_task", "delete_task"}

\* a startup guard that never stops the run
StartupGuardAlways(eng) == "init_db"

\* The startup guard: with an engine the run goes on to init_db and the
\* page, without one it stops.
StartupGuard(eng) == IF eng # "None" THEN "init_db" ELSE "stop"

\* A run from its first line to the end of the startup guard: the connector
\* of the session, engine = get_engine(), then init_db() or st.stop().
StartRun(u, ch, inp, exc, fail) ==
  /\ pc[u] \in {"idle", "rerun"}
  /\ <<ch, inp>> \in RunEvents(u)
  /\ LET ge == get_engine(env, exc)
         db == init_db(ge.engine, env, tableExists, fail)
     IN /\ connector' = [connector EXCEPT ![u] = TRUE]
        /\ engine' = [engine EXCEPT ![u] = ge.engine]
        /\ choice' = [choice EXCEPT ![u] = ch]
        /\ input' = [input EXCEPT ![u] = inp]
        /\ all_tasks' = [all_tasks EXCEPT ![u] = <<>>]
        /\ prevFailed' = [prevFailed EXCEPT ![u] = ReportedFailure(out[u])]
        /\ IF StartupGuard(ge.engine) = "init_db"
             THEN /\ tableExists' = db.exists
                  /\ out' = [out EXCEPT ![u] = ge.msgs \o db.msgs]
                  /\ dbcalls' = [dbcalls EXCEPT ![u] =
                                   IF db.called THEN <<"init_db">> ELSE <<>>]
                  /\ pooled' = [pooled EXCEPT ![u] =
                                  IF db.called /\ Connected(ge.engine, env, fail)
                                    THEN 1 ELSE 0]
                  /\ fault' = [fault EXCEPT ![u] = db.raised]
                  /\ pc' = [pc EXCEPT ![u] = IF db.escapes THEN "idle" ELSE "section"]
             ELSE /\ fail = "none"
                  /\ fault' = [fault EXCEPT ![u] = FALSE]
                  /\ out' = [out EXCEPT ![u] =
                               ge.msgs \o <<Msg("error", "engine unavailable", "")>>]
                  /\ dbcalls' = [dbcalls EXCEPT ![u] = <<>>]
                  /\ pooled' = [pooled EXCEPT ![u] = 0]
                  /\ pc' = [pc EXCEPT ![u] = "idle"]
                  /\ UNCHANGED tableExists
  /\ UNCHANGED <<users, env, now, tasks, nextId>>

\* engine.connect() of a later call of the run: the pool hands out the
\* connection it holds, or opens one while fewer than PoolLimit are open.
Checkout(u, fail) ==
  IF Connected(engine[u], env, fail) /\ pooled[u] < PoolLimit
    THEN IF pooled[u] = 0 THEN 1 ELSE pooled[u]
    ELSE pooled[u]

\* The end of the script: the run's engine, and the connections its pool
\* holds, are dropped with the run.
EndRun(u) ==
  /\ pc' = [pc EXCEPT ![u] = "idle"]
  /\ pooled' = [pooled EXCEPT ![u] = 0]

\* a form without the validation
FormAcceptsAny(title) == TRUE

\* The validation of the Add Task form: add_task is called with a title
\* that is not empty.
FormAccepts(title) == title # ""

\* The Add Task section
AddSection(u, fail) ==
  /\ pc[u] = "section" /\ choice[u] = "Add Task"
  /\ IF input[u].kind # "submit"
       THEN /\ fail = "none"
            /\ UNCHANGED <<tasks, nextId, out, dbcalls, fault>>
       ELSE IF ~FormAccepts(input[u].title)
         THEN /\ fail = "none"
              /\ out' = [out EXCEPT ![u] =
                           Append(@, Msg("warning", "title required", ""))]
              /\ UNCHANGED <<tasks, nextId, dbcalls, fault>>
         ELSE LET r == add_task(engine[u], env, tableExists, tasks, nextId, now,
                                input[u].title, input[u].description, fail)
              IN /\ nextId <= MaxId
                 /\ tasks' = r.tasks
                 /\ nextId' = r.nextId
                 /\ out' = [out EXCEPT ![u] = @ \o r.msgs]
                 /\ dbcalls' = [dbcalls EXCEPT ![u] =
                                  IF r.called THEN Append(@, "add_task") ELSE @]
                 /\ fault' = [fault EXCEPT ![u] = r.raised]
  /\ EndRun(u)
  /\ UNCHANGED <<users, env, now, tableExists, connector, engine, choice, input,
                 all_tasks, prevFailed>>

\* The View Tasks section up to the delete button that was pressed, if any
ViewSection(u, fail) ==
  /\ pc[u] = "section" /\ choice[u] = "View Tasks"
  /\ \E r \in view_tasks(engine[u], env, tableExists, tasks, fail) :
       /\ all_tasks' = [all_tasks EXCEPT ![u] = r.list]
       /\ dbcalls' = [dbcalls EXCEPT ![u] =
                        IF r.called THEN Append(@, "view_tasks") ELSE @]
       /\ fault' = [fault EXCEPT ![u] = r.raised]
       /\ IF r.list # <<>> /\ input[u].kind = "del" /\ input[u].id \in Ids(r.list)
            THEN /\ out' = [out EXCEPT ![u] = @ \o r.msgs]
                 /\ pc' = [pc EXCEPT ![u] = "deleting"]
                 /\ pooled' = [pooled EXCEPT ![u] = Checkout(u, fail)]
            ELSE /\ out' = [out EXCEPT ![u] = @ \o r.msgs \o
                              <<IF r.list # <<>>
                                  THEN Msg("info", "total tasks", "")
                                  ELSE Msg("info", "No tasks found", "")>>]
                 /\ EndRun(u)
  /\ UNCHANGED <<users, env, now, tableExists, tasks, nextId, connector, engine,
                 choice, input, prevFailed>>

\* The Delete Task section up to the Delete Selected Task button: the
\* selectbox keeps the selected id while it is an option, else shows the first.
DeleteSection(u, fail) ==
  /\ pc[u] = "section" /\ choice[u] = "Delete Task"
  /\ \E r \in view_tasks(engine[u], env, tableExists, tasks, fail) :
       /\ all_tasks' = [all_tasks EXCEPT ![u] = r.list]
       /\ dbcalls' = [dbcalls EXCEPT ![u] =
                        IF r.called THEN Append(@, "view_tasks") ELSE @]
       /\ fault' = [fault EXCEPT ![u] = r.raised]
       /\ IF r.list # <<>> /\ input[u].kind = "delsel"
            THEN /\ out' = [out EXCEPT ![u] = @ \o r.msgs]
                 /\ input' = [input EXCEPT ![u].id =
                                IF @ \in Ids(r.list) THEN @ ELSE r.list[1].id]
                 /\ pc' = [pc EXCEPT ![u] = "deleting"]
                 /\ pooled' = [pooled EXCEPT ![u] = Checkout(u, fail)]
            ELSE /\ out' = [out EXCEPT ![u] = @ \o r.msgs \o
                              (IF r.list # <<>> THEN <<>>
                               ELSE <<Msg("info", "No tasks to delete", "")>>)]
                 /\ UNCHANGED input
                 /\ EndRun(u)
  /\ UNCHANGED <<users, env, now, tableExists, tasks, nextId, connector, engine,
                 choice, prevFailed>>

\* delete_task(id) of the pressed button, then st.rerun()
DeleteTask(u, fail) ==
  /\ pc[u] = "deleting"
  /\ LET r == delete_task(engine[u], env, tableExists, tasks, input[u].id, fail)
     IN /\ tasks' = r.tasks
        /\ out' = [out EXCEPT ![u] = @ \o r.msgs]
        /\ dbcalls' = [dbcalls EXCEPT ![u] =
                         IF r.called THEN Append(@, "delete_task") ELSE @]
        /\ fault' = [fault EXCEPT ![u] = r.raised]
  /\ pc' = [pc EXCEPT ![u] = "rerun"]
  /\ pooled' = [pooled EXCEPT ![u] = 0]
  /\ UNCHANGED <<users, env, now, tableExists, nextId, connector, engine, choice,
                 input, all_tasks, prevFailed>>

\* the clock of the database server advances
Tick ==
  /\ now < MaxTime
  /\ now' = now + 1
  /\ UNCHANGED <<users, env, tableExists, tasks, nextId, connector, pc, engine,
                 choice, input, all_tasks, out, dbcalls, pooled, fault,
                 prevFailed>>

\* ------------------------------------------------------- specifications
InitSessions(U) ==
  /\ users = U
  /\ now = 0
  /\ tableExists = FALSE
  /\ tasks = {}
  /\ nextId = 1
  /\ connector = [u \in U |-> FALSE]
  /\ pc = [u \in U |-> "idle"]
  /\ engine = [u \in U |-> "None"]
  /\ choice = [u \in U |-> "View Tasks"]
  /\ input = [u \in U |-> NoInput]
  /\ all_tasks = [u \in U |-> <<>>]
  /\ out = [u \in U |-> <<>>]
  /\ dbcalls = [u \in U |-> <<>>]
  /\ pooled = [u \in U |-> 0]
  /\ fault = [u \in U |-> FALSE]
  /\ prevFailed = [u \in U |-> FALSE]

\* One session: every event, every failure, the clock.
Init == env \in EnvSamples /\ InitSessions({1})

Next ==
  \/ \E u \in users : \E ev \in RunEvents(u), exc \in BOOLEAN, fail \in Fails :
       StartRun(u, ev[1], ev[2], exc, fail)
  \/ \E u \in users, fail \in Fails : AddSection(u, fail)
  \/ \E u \in users, fail \in Fails : ViewSection(u, fail)
  \/ \E u \in users, fail \in Fails : DeleteSection(u, fail)
  \/ \E u \in users, fail \in Fails : DeleteTask(u, fail)
  \/ Tick

Spec == Init /\ [][Next]_vars

\* Several sessions whose database calls interleave, on a configured
\* connector engine and a clock that stands still; init_db succeeds and the
\* later calls succeed or fail in their statement.
InitSessionsSpec == env = EnvConnector /\ InitSessions(1..NumUsers)

SessionFails == {"none", "execute"}

NextSessions ==
  \/ \E u \in users : \E ev \in RunEvents(u) :
       StartRun(u, ev[1], ev[2], FALSE, "none")
  \/ \E u \in users, fail \in SessionFails : AddSection(u, fail)
  \/ \E u \in users, fail \in SessionFails : ViewSection(u, fail)
  \/ \E u \in users, fail \in SessionFails : DeleteSection(u, fail)
  \/ \E u \in users, fail \in SessionFails : DeleteTask(u, fail)

SpecSessions == InitSessionsSpec /\ [][NextSessions]_vars

\* One more session than the pool's limit, each viewing the task list.
InitPool == env = EnvConnector /\ InitSessions(1..NumPoolUsers)

NextPool ==
  \/ \E u \in users : StartRun(u, "View Tasks", NoInput, FALSE, "none")
  \/ \E u \in users : ViewSection(u, "none")

SpecPool == InitPool /\ [][NextPool]_vars

\* Every state of the environment, one session loading the page.
InitEnv == env \in AllEnvs /\ InitSessions({1})

NextEnv ==
  \/ StartRun(1, "View Tasks", NoInput, FALSE, "none")
  \/ ViewSection(1, "none")

SpecEnv == InitEnv /\ [][NextEnv]_vars

\* ------------------------------------------------------------- claims
Last(msgs) == msgs[Len(msgs)]
Has(msgs, level, text) ==
  \E i \in 1..Len(msgs) : msgs[i][1] = level /\ msgs[i][2] = text
HasCause(msgs, cause) == \E i \in 1..Len(msgs) : msgs[i][3] = cause

\* steps of one session, told from the positions before and after
AddStep(u) ==
  /\ pc[u] = "section" /\ choice[u] = "Add Task" /\ pc'[u] = "idle"
  /\ input[u].kind = "submit"
ListStep(u) ==
  /\ pc[u] = "section" /\ choice[u] \in {"View Tasks", "Delete Task"}
  /\ pc'[u] # "section"
DeleteStep(u) == pc[u] = "deleting" /\ pc'[u] = "rerun"

\* u's run has an engine whose connection attempt raised no KeyError
Usable(u) == engine[u] # "None" /\ ~HasCause(out[u], "KeyError")

\* C1: in every state of the environment, a run gets a usable engine (one
\* whose connection attempt raises no configuration error) exactly when the
\* environment matches strategy 1 or strategy 2, the connector engine when
\* strategy 1 matches, and no engine with a configuration error otherwise.
C1_EngineUsableIffConfigured ==
  \A u \in users : out[u] # <<>> =>
    /\ Usable(u) <=> (Strategy1(env) \/ Strategy2(env))
    /\ Strategy1(env) => engine[u] = "connector"
    /\ ~Strategy1(env) /\ ~Strategy2(env) =>
         engine[u] = "None" /\ Has(out[u], "error", "not configured")

\* C2: a run whose engine is None attempts no database call and stops
\* before any section of the page, whatever event triggered it.
C2_NoEngineNoDatabase ==
  \A u \in users : engine[u] = "None" => dbcalls[u] = <<>> /\ pc[u] = "idle"
C2_Witness ==
  \E u \in users :
    /\ engine[u] = "None" /\ input[u].kind # "none"
    /\ Has(out[u], "error", "engine unavailable")

\* C3, as claimed: in every list view_tasks returns, a task inserted later
\* (a larger id) never comes after a task inserted earlier.
C3_LaterInsertFirst ==
  \A u \in users : \A i, j \in 1..Len(all_tasks[u]) :
    i < j => all_tasks[u][i].id > all_tasks[u][j].id
\* C3, as amended: every list view_tasks returns is sorted by the second of
\* created_at, descending; a task comes after a task inserted earlier only
\* when both were created within the same second.
C3_SortedBySecond ==
  \A u \in users : \A i, j \in 1..Len(all_tasks[u]) :
    i < j =>
      /\ all_tasks[u][i].created_at >= all_tasks[u][j].created_at
      /\ all_tasks[u][i].id < all_tasks[u][j].id =>
           all_tasks[u][i].created_at = all_tasks[u][j].created_at
C3_Witness ==
  \E u \in users :
    /\ Len(all_tasks[u]) = 3
    /\ all_tasks[u][1].created_at > all_tasks[u][3].created_at
    /\ all_tasks[u][1].id > all_tasks[u][2].id
    /\ all_tasks[u][2].id > all_tasks[u][3].id

\* C4: no stored task has an empty title, and submitting the Add Task form
\* with an empty title calls no database, leaves the table as it was and
\* displays the validation warning, not an error.
C4_EmptyTitleRejected ==
  /\ [](\A row \in tasks : row.title # "")
  /\ [][\A u \in users :
          AddStep(u) /\ input[u].title = "" =>
            /\ tasks' = tasks /\ nextId' = nextId
            /\ dbcalls'[u] = dbcalls[u]
            /\ out'[u] = Append(out[u], Msg("warning", "title required", ""))]_vars
C4_Witness ==
  \E u \in users :
    /\ pc[u] = "idle" /\ input[u].kind = "submit" /\ input[u].title = ""
    /\ Last(out[u]) = Msg("warning", "title required", "")
    /\ tasks # {}

\* C5: a delete_task call that raises no exception reports success and
\* removes exactly the rows with the given id, at most one; when no row has
\* the id the table is unchanged.
C5_DeleteFrame ==
  [][\A u \in users :
       DeleteStep(u) =>
         LET hit == {row \in tasks : row.id = input[u].id}
         IN /\ Cardinality(hit) <= 1
            /\ hit = {} => tasks' = tasks
            /\ ~fault'[u] =>
                 /\ Last(out'[u]) = Msg("success", "delete_task", "")
                 /\ ~Has(out'[u], "error", "delete_task")
                 /\ tasks' = tasks \ hit]_vars
\* two sessions have each deleted the same id with success: ids are never
\* reused, so one of the two calls matched no row
C5_Witness ==
  \E u, v \in users :
    /\ u # v /\ pc[u] = "rerun" /\ pc[v] = "rerun"
    /\ input[u].id = input[v].id
    /\ Last(out[u]) = Msg("success", "delete_task", "")
    /\ Last(out[v]) = Msg("success", "delete_task", "")
    /\ tasks # {}

\* C6: an add_task or delete_task call that raises leaves the table and the
\* id sequence as they were, displays an error and no success, and calls
\* the database once.
C6_FailureLeavesTable ==
  [][\A u \in users :
       /\ (AddStep(u) \/ DeleteStep(u))
       /\ fault'[u] /\ Len(dbcalls'[u]) > Len(dbcalls[u])
       => /\ tasks' = tasks /\ nextId' = nextId
          /\ Len(out'[u]) = Len(out[u]) + 1
          /\ Last(out'[u])[1] = "error"
          /\ Len(dbcalls'[u]) = Len(dbcalls[u]) + 1]_vars
\* a run that follows a failed add_task or delete_task adds a task
C6_Witness ==
  \E u \in users :
    /\ prevFailed[u] /\ pc[u] = "idle"
    /\ Last(out[u]) = Msg("success", "add_task", "")

\* C7: the process holds at most one connector and at most one engine
\* (pool), however many sessions and runs there are.
C7_OneConnectorOnePool ==
  /\ Cardinality({u \in users : connector[u]}) <= 1
  /\ Cardinality({u \in users : engine[u] # "None"}) <= 1

\* init_db of u's run displayed its error
InitFailed(u) == Has(out[u], "error", "init_db")

\* C8, as claimed: in a run whose init_db failed, no later database call
\* is made.
C8_InitFailureStops ==
  \A u \in users : InitFailed(u) => dbcalls[u] = <<"init_db">>
\* C8, as amended: a run whose init_db failed displays the error and goes
\* on to its section; on the View Tasks and Delete Task pages it still
\* calls view_tasks.
C8_InitFailureGoesOn ==
  \A u \in users :
    InitFailed(u) =>
      /\ engine[u] # "None"
      /\ pc[u] = "idle" /\ choice[u] # "Add Task" =>
           Len(dbcalls[u]) >= 2 /\ dbcalls[u][2] = "view_tasks"
C8_Witness ==
  \E u \in users :
    /\ InitFailed(u) /\ pc[u] = "idle"
    /\ dbcalls[u] = <<"init_db", "view_tasks">>

\* the connections the pools of the sessions in U hold open
RECURSIVE SumPooled(_)
SumPooled(U) == IF U = {} THEN 0
                ELSE LET u == CHOOSE x \in U : TRUE
                     IN pooled[u] + SumPooled(U \ {u})

\* C9: the connections the application holds open never number more than
\* pool_size + max_overflow.
C9_AtMostPoolLimit == SumPooled(users) <= PoolLimit

\* C10: view_tasks returns the empty list exactly when the table is empty,
\* the call raises, or engine is None, and otherwise the whole table; after
\* a failed listing the page shows what it shows for an empty table.
C10_EmptyListCases ==
  /\ [](\A f \in Fails :
          \A r \in view_tasks("None", env, tableExists, tasks, f) :
            r.list = <<>> /\ ~r.called)
  /\ [][\A u \in users :
          ListStep(u) =>
            /\ all_tasks'[u] = <<>> <=> (tasks = {} \/ fault'[u])
            /\ all_tasks'[u] # <<>> =>
                 /\ Len(all_tasks'[u]) = Cardinality(tasks)
                 /\ Ids(all_tasks'[u]) = {row.id : row \in tasks}
            /\ all_tasks'[u] = <<>> =>
                 /\ pc'[u] = "idle"
                 /\ Last(out'[u]) =
                      IF choice[u] = "View Tasks"
                        THEN Msg("info", "No tasks found", "")
                        ELSE Msg("info", "No tasks to delete", "")]_vars
\* a listing failed on a table that holds tasks
C10_Witness ==
  \E u \in users :
    /\ pc[u] = "idle" /\ choice[u] = "View Tasks" /\ tasks # {}
    /\ dbcalls[u] = <<"init_db", "view_tasks">> /\ fault[u]
    /\ all_tasks[u] = <<>>
    /\ Last(out[u]) = Msg("info", "No tasks found", "")
    /\ ~InitFailed(u)

====
